---- MODULE Spec2Model ----
(***************************************************************************)
(* Model of the Blockchain class of src/test-tools.js (star-chain).        *)
(*                                                                         *)
(* The class is single-threaded JavaScript: every method body runs         *)
(* synchronously up to its first `await`, and every continuation is a job  *)
(* of the FIFO microtask queue.  The model keeps that queue explicitly     *)
(* (variable `queue`); public methods may be called between any two jobs.  *)
(* block.js is not part of the sources: Block, getBData and validate are   *)
(* modelled from the specification (section 4.1).                          *)
(***************************************************************************)
EXTENDS Integers, Sequences, FiniteSets, TLC

VARIABLES chain, height, now, calls, vals, queries, queue, tampers, inits,
          lookups, issued

vars == <<chain, height, now, calls, vals, queries, queue, tampers, inits,
          lookups, issued>>

(*************************** bounds of the model ***************************)
MaxSubmit == 2      \* submitStar calls per behaviour
MaxInit == 1        \* initializeChain calls made after the constructor's
MaxValidate == 1    \* validateChain calls made from outside
MaxQueries == 1     \* getStarsByWalletAddress calls
MaxTick == 1        \* seconds the clock may advance
MaxTamper == 1      \* outside mutations of a block (SpecTamper only)
MaxSubmitIO == 1    \* submitStar calls per behaviour of SpecIO
MaxLookups == 1     \* getBlockByHeight calls
MaxSubmitLookup == 1 \* submitStar calls per behaviour of SpecLookup
MaxRequests == 1    \* challenge messages handed out in SpecOwnership
MaxResubmit == 2    \* submitStar calls per behaviour of SpecOwnership

StartTime == 1000   \* the clock's value (seconds) when the ledger is built

Addresses == {"A", "B"}
Stars == {"s1", "s2"}
\* heights asked for: of the genesis block, of a first star, beyond any chain
HeightArgs == {0, 1, 7}

(***************************** values *************************************)
\* JavaScript null / undefined for hashes
Null == <<>>

\* A message is the list of its colon-separated fields; a field is either
\* the decimal text of a number (s = "") or some other text.
Num(n) == [s |-> "", n |-> n]
Txt(s) == [s |-> s, n |-> 0]
Undefined == [undef |-> TRUE, fields |-> <<>>]
Str(fields) == [undef |-> FALSE, fields |-> fields]

\* address + ':' + seconds + ':starRegistry'
ChallengeMessage(address, time) == Str(<<Txt(address), Num(time), Txt("starRegistry")>>)

NaN == [nan |-> TRUE, v |-> 0]
Number(n) == [nan |-> FALSE, v |-> n]

\* message.split(':')[1], then parseInt
ParseIntField(fields, k) ==
    IF k > Len(fields) THEN NaN
    ELSE IF fields[k].s = "" THEN Number(fields[k].n) ELSE NaN

Minus(a, b) == IF a.nan \/ b.nan THEN NaN ELSE Number(a.v - b.v)
Greater(a, n) == ~a.nan /\ a.v > n

\* a signature names the key that made it and the message it was made over;
\* key "garbage" is a string that is no signature encoding at all
Sign(key, message) == [key |-> key, over |-> message]
Garbage == [key |-> "garbage", over |-> Undefined]
NoSignature == [key |-> "none", over |-> Undefined]

\* bitcoinMessage.verify accepting no signature at all
VerifyNothing(message, address, signature) ==
    IF signature.key = "garbage" THEN "throw" ELSE "false"

\* bitcoinMessage.verify(message, address, signature): "true", "false", "throw"
Verify(message, address, signature) ==
    IF signature.key = "garbage" THEN "throw"
    ELSE IF signature.key = address /\ signature.over = message THEN "true"
    ELSE "false"

FiveMinutes == 5 * 60

(***************************** Block (block.js) ****************************)
Encode(data) == <<"hex", data>>
Decode(body) == body[2]

GenesisData == [data |-> "Genesis Block"]
StarData(address, message, signature, star) ==
    [address |-> address, message |-> message, signature |-> signature, star |-> star]

NewBlock(data) ==
    [hash |-> Null, height |-> 0, body |-> Encode(data), time |-> 0,
     previousBlockHash |-> Null]

Stringify(b) == <<b.hash, b.height, b.body, b.time, b.previousBlockHash>>
SHA256(text) == <<"sha256", text>>

\* Block.validate(): genesis is trusted, any other block recomputes its digest
BlockValidate(b) ==
    \/ b.height = 0
    \/ b.hash = SHA256(Stringify([b EXCEPT !.hash = Null]))

\* Block.getBData()
GetBData(b) == Decode(b.body)

(***************************** microtasks *********************************)
\* A job of the queue is the continuation of one await (or one then-callback)
\* together with the reaction jobs that only pass its value along; jobs run
\* in the order in which they were scheduled.
\* a job of the microtask queue: t names the continuation, id the call it
\* belongs to, i a block index, v the value the awaited promise settled with
\* (FALSE when the continuation gets none)
Task(t, id, i, v) == [t |-> t, id |-> id, i |-> i, v |-> v]

Ready(t) == queue # <<>> /\ Head(queue).t = t

\* a continuation put in front of the jobs that wait already
ScheduledFirst(q, task) == <<task>> \o q

\* line 123: the continuation of an await goes to the end of the queue
Scheduled(q, task) == Append(q, task)

NumCalls(kind) == Cardinality({c \in 1..Len(calls) : calls[c].kind = kind})

NewCall(kind, address, message, signature, star) ==
    [kind |-> kind, address |-> address, message |-> message,
     signature |-> signature, star |-> star,
     state |-> "pending", reason |-> "", verified |-> FALSE,
     block |-> NewBlock(GenesisData), chainHeight |-> -2,
     add |-> "none", idx |-> 0, lenBefore |-> Len(chain),
     lastBefore |-> IF chain = <<>> THEN Null ELSE chain[Len(chain)].hash,
     result |-> NewBlock(GenesisData), hasResult |-> FALSE]

(***************************** _addBlock **********************************)
\* lines 122-126: the part of _addBlock that runs inside the caller's job:
\* stamp the block, read the height, suspend on the await
AddBlockStart(call) ==
    [call EXCEPT !.block.time = now, !.chainHeight = height, !.add = "reading"]

\* lines 127-131 with the previousBlockHash taken from the genesis block
LinkedToGenesis(block, chainHeight) ==
    LET b1 == [block EXCEPT !.height = chainHeight + 1]
        b2 == IF chainHeight >= 0
              THEN [b1 EXCEPT !.previousBlockHash = chain[1].hash]
              ELSE b1
    IN  [b2 EXCEPT !.hash = SHA256(Stringify(b2))]

\* lines 127-131: height, previousBlockHash and hash of the block to push
Linked(block, chainHeight) ==
    LET b1 == [block EXCEPT !.height = chainHeight + 1]
        b2 == IF chainHeight >= 0
              THEN [b1 EXCEPT !.previousBlockHash = chain[chainHeight + 1].hash]
              ELSE b1
    IN  [b2 EXCEPT !.hash = SHA256(Stringify(b2))]

\* validateChain up to its resolve: one callback per block, each suspended on
\* `await block.validate().catch(..)`, then resolve(errorLog)
NewValidation(ch, external, owner) ==
    LET errorLog == <<>>
    IN  [errorLog |-> errorLog, previousHash |-> Null, resolvedWith |-> errorLog,
         external |-> external, owner |-> owner, chainAt |-> ch, ran |-> 0]

ValidateTasks(vid, ch) ==
    [i \in 1..Len(ch) |-> Task("validateCb", vid, i, BlockValidate(ch[i]))]

\* line 132 with the block stored over the last element
PushedOverLast(ch, block) ==
    IF ch = <<>> THEN <<block>> ELSE [ch EXCEPT ![Len(ch)] = block]

\* line 132: self.chain.push(block)
Pushed(ch, block) == Append(ch, block)

\* line 133 left out
HeightKept(h) == h

\* line 133: self.height++
HeightIncremented(h) == h + 1

\* lines 127-134: the continuation of _addBlock after the height was read
AddBlockPush ==
    /\ Ready("addBlock")
    /\ LET c == Head(queue).id
           block == Linked(calls[c].block, calls[c].chainHeight)
           newChain == Pushed(chain, block)
           vid == Len(vals) + 1
       IN  /\ chain' = newChain
           /\ height' = HeightIncremented(height)
           /\ calls' = [calls EXCEPT ![c].block = block, ![c].add = "pushed",
                                     ![c].idx = Len(newChain)]
           /\ vals' = Append(vals, NewValidation(newChain, FALSE, c))
           /\ queue' = Tail(queue) \o ValidateTasks(vid, newChain)
                         \o <<Task("addBlockResume", c, 0, FALSE)>>
    /\ UNCHANGED <<now, queries, tampers, inits, lookups, issued>>

\* line 135: resolve(block); the caller awaiting _addBlock is scheduled
AddBlockResolve ==
    /\ Ready("addBlockResume")
    /\ LET c == Head(queue).id
       IN  /\ calls' = [calls EXCEPT ![c].add = "resolved"]
           /\ queue' = Tail(queue) \o
                 <<IF calls[c].kind = "init"
                   THEN Task("initReturn", c, 0, FALSE)
                   ELSE Task("submitResume", c, 0, FALSE)>>
    /\ UNCHANGED <<chain, height, now, vals, queries, tampers, inits, lookups, issued>>

(***************************** initializeChain ****************************)
\* lines 89-95, called by the constructor and callable again from outside
InitializeChainCall ==
    LET c0 == NewCall("init", "", Undefined, NoSignature, "")
    IN  IF height = -1
        THEN /\ calls' = Append(calls, AddBlockStart(c0))
             /\ queue' = Scheduled(queue, Task("addBlock", Len(calls) + 1, 0, FALSE))
        ELSE \* nothing to do: the promise of the call is fulfilled at once
             /\ calls' = calls
             /\ queue' = queue

InitializeChain ==
    /\ inits < MaxInit
    /\ inits' = inits + 1
    /\ InitializeChainCall
    /\ UNCHANGED <<chain, height, now, vals, queries, tampers, lookups, issued>>

\* line 95: the async function returns after `await this._addBlock(block)`
InitializeChainReturn ==
    /\ Ready("initReturn")
    /\ calls' = [calls EXCEPT ![Head(queue).id].state = "resolved"]
    /\ queue' = Tail(queue)
    /\ UNCHANGED <<chain, height, now, vals, queries, tampers, inits, lookups, issued>>

(***************************** submitStar *********************************)
\* lines 175-177
TimeDifference(message) == Minus(Number(now), ParseIntField(message.fields, 2))

\* line 179 with >= in place of >
ExpiredAtLimit(message) ==
    LET d == TimeDifference(message) IN ~d.nan /\ d.v >= FiveMinutes

\* line 179
Expired(message) == Greater(TimeDifference(message), FiveMinutes)

\* lines 179-185 without the reject of line 181
RejectReasonUnchecked(address, message, signature) ==
    LET v == Verify(message, address, signature)
    IN  IF Expired(message) THEN "expired"
        ELSE IF v = "throw" THEN "verifyerr"
        ELSE ""

\* lines 179-185: the first reject that is called settles the promise
RejectReason(address, message, signature) ==
    LET v == Verify(message, address, signature)
    IN  IF Expired(message) THEN "expired"
        ELSE IF v = "false" THEN "badsig"
        ELSE IF v = "throw" THEN "verifyerr"
        ELSE ""

\* lines 186-192: reject does not leave the executor, so the block is built
\* and handed to _addBlock whatever the checks said
SubmitProceeds(reason) == TRUE

\* lines 172-192, up to the first await
SubmitStar(address, message, signature, star) ==
    LET c0 == NewCall("submit", address, message, signature, star)
        c == Len(calls) + 1
    IN  /\ IF message.undef
           THEN \* message.split throws inside the async executor: the promise
                \* of submitStar is never settled
                /\ calls' = Append(calls, c0)
                /\ queue' = queue
           ELSE LET reason == RejectReason(address, message, signature)
                    c1 == [c0 EXCEPT !.state = IF reason = "" THEN "pending" ELSE "rejected",
                                     !.reason = reason, !.verified = TRUE,
                                     !.block = NewBlock(StarData(address, message, signature, star))]
                IN  IF SubmitProceeds(reason)
                    THEN /\ calls' = Append(calls, AddBlockStart(c1))
                         /\ queue' = Scheduled(queue, Task("addBlock", c, 0, FALSE))
                    ELSE /\ calls' = Append(calls, c1)
                         /\ queue' = queue
        /\ UNCHANGED <<chain, height, now, vals, queries, tampers, inits, lookups, issued>>

\* line 192: resolve(await self._addBlock(newBlock)...); a resolve that comes
\* after a reject changes nothing
SubmitStarResolve ==
    /\ Ready("submitResume")
    /\ LET c == Head(queue).id
       IN  calls' = IF calls[c].state = "pending"
                    THEN [calls EXCEPT ![c].state = "resolved",
                                       ![c].result = calls[c].block,
                                       ![c].hasResult = TRUE]
                    ELSE calls
    /\ queue' = Tail(queue)
    /\ UNCHANGED <<chain, height, now, vals, queries, tampers, inits, lookups, issued>>

(***************************** validateChain ******************************)
\* lines 260-271, called from outside
ValidateChain ==
    /\ Cardinality({v \in 1..Len(vals) : vals[v].external}) < MaxValidate
    /\ vals' = Append(vals, NewValidation(chain, TRUE, 0))
    /\ queue' = queue \o ValidateTasks(Len(vals) + 1, chain)
    /\ UNCHANGED <<chain, height, now, calls, queries, tampers, inits, lookups, issued>>

\* lines 266-268: the rest of one forEach callback, after its await
BlockErrors(block, ok, previousHash) ==
    (IF ~ok THEN <<<<"block did not validate", block.hash>>>> ELSE <<>>)
    \o (IF block.height > 0 /\ previousHash # block.previousBlockHash
        THEN <<<<"previousHash does not match", block.hash>>>> ELSE <<>>)

ValidateCallback ==
    /\ Ready("validateCb")
    /\ LET v == Head(queue).id
           block == chain[Head(queue).i]
       IN  vals' = [vals EXCEPT
                      ![v].errorLog = @ \o BlockErrors(block, Head(queue).v, vals[v].previousHash),
                      ![v].previousHash = block.hash,
                      ![v].ran = @ + 1]
    /\ queue' = Tail(queue)
    /\ UNCHANGED <<chain, height, now, calls, queries, tampers, inits, lookups, issued>>

(************************ getStarsByWalletAddress *************************)
StarsTasks(qid, ch) ==
    [k \in 1..(Len(ch) - 1) |-> Task("starsCb", qid, k + 1, GetBData(ch[k + 1]))]

\* lines 237-251: register a callback per block of chain.slice(1), resolve(stars)
GetStarsByWalletAddress(address) ==
    /\ Len(queries) < MaxQueries
    /\ LET stars == <<>>
       IN  queries' = Append(queries, [address |-> address, stars |-> stars,
                                       resolvedWith |-> stars, chainAt |-> chain, ran |-> 0])
    /\ queue' = queue \o StarsTasks(Len(queries) + 1, chain)
    /\ UNCHANGED <<chain, height, now, calls, vals, tampers, inits, lookups, issued>>

FieldOr(data, name, default) == IF name \in DOMAIN data THEN data[name] ELSE default

\* lines 243-248
StarsCallback ==
    /\ Ready("starsCb")
    /\ LET q == Head(queue).id
           blockData == Head(queue).v
       IN  queries' = [queries EXCEPT
                         ![q].stars = IF queries[q].address = FieldOr(blockData, "address", "undefined")
                                      THEN Append(@, FieldOr(blockData, "star", "undefined"))
                                      ELSE @,
                         ![q].ran = @ + 1]
    /\ queue' = Tail(queue)
    /\ UNCHANGED <<chain, height, now, calls, vals, tampers, inits, lookups, issued>>

(***************************** getBlockByHeight ***************************)
\* line 217 with the height compared to the position in the array
AtPosition(ch, h) == IF h + 1 \in 1..Len(ch) THEN h + 1 ELSE 0

\* line 217: self.chain.filter(p => p.height === height)[0], 0 when undefined
FirstWithHeight(ch, h) ==
    LET found == {i \in 1..Len(ch) : ch[i].height = h}
    IN  IF found = {} THEN 0 ELSE CHOOSE i \in found : \A j \in found : i <= j

\* lines 214-228, up to the await of line 220 or the resolve(null) of line 226
GetBlockByHeight(h) ==
    /\ Len(lookups) < MaxLookups
    /\ LET i == FirstWithHeight(chain, h)
           l == [height |-> h, state |-> IF i = 0 THEN "resolved" ELSE "pending",
                 found |-> FALSE, block |-> NewBlock(GenesisData), index |-> i]
       IN  /\ lookups' = Append(lookups, l)
           /\ queue' = IF i = 0 THEN queue
                        ELSE Scheduled(queue, Task("lookupResume", Len(lookups) + 1, i, FALSE))
    /\ UNCHANGED <<chain, height, now, calls, vals, queries, tampers, inits, issued>>

\* lines 220-224: getBData settled (a rejection is caught at line 221), resolve(block)
GetBlockByHeightResolve ==
    /\ Ready("lookupResume")
    /\ LET l == Head(queue).id
       IN  lookups' = [lookups EXCEPT ![l].state = "resolved", ![l].found = TRUE,
                                      ![l].block = chain[Head(queue).i]]
    /\ queue' = Tail(queue)
    /\ UNCHANGED <<chain, height, now, calls, vals, queries, tampers, inits, issued>>

(****************** requestMessageOwnershipVerification *******************)
\* lines 147-153: the message is built from the address and the clock and
\* handed to the caller; `issued` is what callers have received so far
RequestMessageOwnershipVerification(address) ==
    /\ Cardinality(issued) < MaxRequests
    /\ issued' = issued \cup {[address |-> address,
                                message |-> ChallengeMessage(address, now)]}
    /\ UNCHANGED <<chain, height, now, calls, vals, queries, queue, tampers, inits, lookups>>

(***************************** environment ********************************)
\* the clock advances between two drains of the microtask queue
Tick ==
    /\ queue = <<>>
    /\ now < StartTime + MaxTick
    /\ now' = now + 1
    /\ UNCHANGED <<chain, height, calls, vals, queries, queue, tampers, inits, lookups, issued>>

\* a block object is changed from outside the ledger after it was appended
Tamper ==
    /\ tampers < MaxTamper
    /\ \E i \in 1..Len(chain) :
          chain' = [chain EXCEPT ![i].body = Encode([data |-> "tampered"])]
    /\ tampers' = tampers + 1
    /\ UNCHANGED <<height, now, calls, vals, queries, queue, inits, lookups, issued>>

Elapsed == {0}
ElapsedIO == {-1, 0, 299, 300, 301}

\* a submission as an honest client makes it: a fresh challenge for its
\* address, signed with the key of that address
SubmitStarCall ==
    /\ NumCalls("submit") < MaxSubmit
    /\ \E address \in Addresses, e \in Elapsed, star \in Stars :
          LET message == ChallengeMessage(address, now - e)
          IN  SubmitStar(address, message, Sign(address, message), star)

\* an honest submission of wallet A
SubmitStarLookup ==
    /\ NumCalls("submit") < MaxSubmitLookup
    /\ \E star \in Stars :
          LET message == ChallengeMessage("A", now)
          IN  SubmitStar("A", message, Sign("A", message), star)

\* the owner signs a message the ledger has handed out and submits it, any
\* number of times
SubmitStarIssued ==
    /\ NumCalls("submit") < MaxResubmit
    /\ \E r \in issued :
          SubmitStar(r.address, r.message, Sign(r.address, r.message), "s1")

MessagesIO(address) ==
    {ChallengeMessage(address, now - e) : e \in ElapsedIO}
      \cup {Str(<<Txt(address)>>), Str(<<Txt(address), Txt("abc"), Txt("starRegistry")>>),
            Undefined}

SubmitStarIO ==
    /\ NumCalls("submit") < MaxSubmitIO
    /\ \E address \in Addresses, message \in MessagesIO("A"), star \in Stars :
          \E signature \in {Sign(k, message) : k \in Addresses} \cup {Garbage} :
             SubmitStar(address, message, signature, star)

\* the jobs of the microtask queue that belong to an append
Appends ==
    \/ AddBlockPush
    \/ AddBlockResolve
    \/ InitializeChainReturn
    \/ SubmitStarResolve
    \/ ValidateCallback

\* the state right after `new Blockchain()`: lines 78-82
Init ==
    /\ chain = <<>>
    /\ height = -1
    /\ now = StartTime
    /\ vals = <<>>
    /\ queries = <<>>
    /\ tampers = 0
    /\ inits = 0
    /\ lookups = <<>>
    /\ issued = {}
    /\ LET c0 == [kind |-> "init", address |-> "", message |-> Undefined,
                  signature |-> NoSignature, star |-> "",
                  state |-> "pending", reason |-> "", verified |-> FALSE,
                  block |-> [NewBlock(GenesisData) EXCEPT !.time = StartTime],
                  chainHeight |-> -1, add |-> "reading", idx |-> 0, lenBefore |-> 0,
                  lastBefore |-> Null,
                  result |-> NewBlock(GenesisData), hasResult |-> FALSE]
       IN  /\ calls = <<c0>>
           /\ queue = <<Task("addBlock", 1, 0, FALSE)>>

Next ==
    \/ Appends
    \/ InitializeChain
    \/ SubmitStarCall
    \/ Tick

NextValidate ==
    \/ Next
    \/ ValidateChain

NextTamper ==
    \/ NextValidate
    \/ Tamper

NextStars ==
    \/ Next
    \/ \E address \in Addresses : GetStarsByWalletAddress(address)
    \/ StarsCallback

NextIO ==
    \/ Appends
    \/ SubmitStarIO
    \/ Tick

NextLookup ==
    \/ Appends
    \/ SubmitStarLookup
    \/ \E h \in HeightArgs : GetBlockByHeight(h)
    \/ GetBlockByHeightResolve

NextOwnership ==
    \/ Appends
    \/ \E address \in Addresses : RequestMessageOwnershipVerification(address)
    \/ SubmitStarIssued
    \/ Tick

\* appends only
Spec == Init /\ [][Next]_vars
\* appends and validateChain calls
SpecValidate == Init /\ [][NextValidate]_vars
\* appends, validateChain calls and blocks changed from outside
SpecTamper == Init /\ [][NextTamper]_vars
\* appends and getStarsByWalletAddress calls
SpecStars == Init /\ [][NextStars]_vars
\* one submission with every kind of message and signature
SpecIO == Init /\ [][NextIO]_vars
\* SpecIO with the event loop running every queued job
SpecIOFair == SpecIO /\ WF_vars(Appends)
\* challenges requested, signed and submitted, repeatedly
SpecOwnership == Init /\ [][NextOwnership]_vars
\* submissions and getBlockByHeight calls
SpecLookup == Init /\ [][NextLookup]_vars

(***************************************************************************)
(*                              properties                                 *)
(***************************************************************************)
Submits == {c \in 1..Len(calls) : calls[c].kind = "submit"}

\* the second field of the message is a number
HasTimestamp(message) ==
    ~message.undef /\ ~ParseIntField(message.fields, 2).nan

\* address:timestamp:starRegistry
WellFormed(message) ==
    /\ HasTimestamp(message)
    /\ Len(message.fields) = 3

\* now - embeddedTimestamp, as it was when call c was made (its block was
\* stamped with the clock of that moment)
ElapsedOf(c) == calls[c].block.time - calls[c].message.fields[2].n

ValidSignature(c) ==
    Verify(calls[c].message, calls[c].address, calls[c].signature) = "true"

\* the continuation of submitStar after its _addBlock has run
Finished(c) ==
    /\ calls[c].add = "resolved"
    /\ \A k \in 1..Len(queue) : ~(queue[k].t = "submitResume" /\ queue[k].id = c)

\* C1: a submitStar call whose promise was rejected has appended no block
C1_RejectedAppendsNothing ==
    \A c \in Submits : calls[c].state = "rejected" => calls[c].idx = 0

\* C2: chain integrity: every block but the first names the hash of the block
\* before it as its previousBlockHash
C2_ChainIntegrity ==
    \A h \in 2..Len(chain) : chain[h].previousBlockHash = chain[h - 1].hash

\* C3: appends are serialized: at most one _addBlock is between reading the
\* height and pushing its block
C3_AppendsSerialized ==
    Cardinality({c \in 1..Len(calls) : calls[c].add = "reading"}) <= 1

C5_InvalidSignature ==
    \A c \in Submits :
       ( /\ HasTimestamp(calls[c].message)
         /\ ElapsedOf(c) <= 300
         /\ Verify(calls[c].message, calls[c].address, calls[c].signature) = "false" )
       => calls[c].state = "rejected" /\ calls[c].reason = "badsig"

C5_Witness ==
    \E c \in Submits :
       /\ HasTimestamp(calls[c].message)
       /\ ElapsedOf(c) = 300
       /\ calls[c].signature.key \in Addresses \ {calls[c].address}
       /\ calls[c].state = "rejected"
       /\ calls[c].reason = "badsig"

\* C6: a submission whose message is not address:timestamp:starRegistry fails,
\* whatever its signature: its promise is never resolved with a block
C6_MalformedRejected ==
    \A c \in Submits :
       (~calls[c].message.undef /\ ~WellFormed(calls[c].message)) =>
          calls[c].state # "resolved"

\* what C7 says of the block a submission resolved with, apart from its place
ResolvedBlockFields(c) ==
    /\ calls[c].result.height = calls[c].lenBefore
    /\ calls[c].result.previousBlockHash = calls[c].lastBefore
    /\ GetBData(calls[c].result) =
          StarData(calls[c].address, calls[c].message, calls[c].signature, calls[c].star)
    /\ calls[c].lenBefore = 1 =>
          calls[c].result.height = 1 /\ calls[c].result.previousBlockHash = chain[1].hash

\* C7 as stated: when a submission resolves, its block is the last element of
\* the chain, its height is the chain height before the call plus one and its
\* previousBlockHash is the hash of the block that was last before the call
C7_ResolvedBlockIsLast ==
    [][\A c \in Submits :
          (calls[c].state = "pending" /\ calls'[c].state = "resolved") =>
             /\ calls'[c].result = chain'[Len(chain')]
             /\ ResolvedBlockFields(c)']_vars

\* C7 amended: a successful submission resolves with the block its append
\* pushed as the last element of the chain (later appends may follow it by the
\* time the promise resolves); its height is the chain height before the call
\* plus one, its previousBlockHash the hash of the block that was last before
\* the call, its payload {address, message, signature, star}
C7_ResolvedBlockWasAppended ==
    [][\A c \in 1..Len(calls) :
          /\ (calls[c].kind = "submit" /\ calls[c].state = "pending"
                 /\ calls'[c].state = "resolved") =>
                /\ calls'[c].hasResult
                /\ calls'[c].idx \in 1..Len(chain')
                /\ chain'[calls'[c].idx] = calls'[c].result
                /\ ResolvedBlockFields(c)'
          /\ calls[c].idx # calls'[c].idx =>
                /\ calls'[c].idx = Len(chain')
                /\ chain' = Append(chain, calls'[c].block)]_vars

C7_Witness ==
    \E c \in Submits :
       /\ calls[c].state = "resolved"
       /\ calls[c].lenBefore = 1
       /\ calls[c].result.height = 1
       /\ calls[c].idx < Len(chain)

\* the defects of a chain, front to back: a self-validation error for every
\* block that fails validate(), a linkage error for every non-genesis block
\* whose previousBlockHash is not the hash of the block before it
RECURSIVE CompleteErrors(_, _)
CompleteErrors(ch, n) ==
    IF n = 0 THEN <<>>
    ELSE CompleteErrors(ch, n - 1)
           \o BlockErrors(ch[n], BlockValidate(ch[n]),
                          IF n = 1 THEN Null ELSE ch[n - 1].hash)

\* C8: validateChain resolves with the complete list of defects of the chain
C8_ResolvesWithAllDefects ==
    \A v \in 1..Len(vals) :
       vals[v].external =>
          vals[v].resolvedWith = CompleteErrors(vals[v].chainAt, Len(vals[v].chainAt))

\* C9: no validateChain run ever records an error for a chain built by the
\* ledger's own operations
C9_NoErrorRecorded ==
    \A v \in 1..Len(vals) : vals[v].errorLog = <<>>

\* the stars of the blocks after the first whose payload address is `address`
RECURSIVE MatchingStars(_, _, _)
MatchingStars(ch, n, address) ==
    IF n <= 1 THEN <<>>
    ELSE MatchingStars(ch, n - 1, address)
           \o (IF FieldOr(GetBData(ch[n]), "address", "undefined") = address
               THEN <<GetBData(ch[n]).star>> ELSE <<>>)

\* C10: getStarsByWalletAddress resolves with exactly the stars of the blocks
\* of the queried address, in chain order
C10_ResolvesWithStars ==
    \A q \in 1..Len(queries) :
       queries[q].resolvedWith =
          MatchingStars(queries[q].chainAt, Len(queries[q].chainAt), queries[q].address)

C12_ErrorsSurfaced ==
    \A v \in 1..Len(vals) :
       ( /\ ~vals[v].external
         /\ vals[v].errorLog # <<>>
         /\ calls[vals[v].owner].state # "pending" )
       => calls[vals[v].owner].state = "rejected"

\* C13: once the chain is non-empty its first element is the genesis block:
\* genesis payload, height 0, no previousBlockHash
C13_GenesisFirst ==
    chain # <<>> =>
       /\ GetBData(chain[1]) = GenesisData
       /\ chain[1].height = 0
       /\ chain[1].previousBlockHash = Null

\* a submission that was started before the genesis append completed has
\* appended its block
C13_Witness ==
    /\ Len(chain) >= 2
    /\ \E c \in Submits : calls[c].lenBefore = 0 /\ calls[c].idx > 1
    /\ GetBData(chain[1]) = GenesisData

\* C14: getBlockByHeight(h) never fails: it resolves with the not-found value
\* when no block has height h (so for every h above the cached height), and
\* with a block of height h otherwise
C14_LookupByHeight ==
    \A l \in 1..Len(lookups) :
       /\ lookups[l].state \in {"pending", "resolved"}
       /\ lookups[l].state = "resolved" =>
             IF lookups[l].found
             THEN lookups[l].block.height = lookups[l].height
             ELSE lookups[l].index = 0
       /\ lookups[l].index = 0 =>
             /\ lookups[l].state = "resolved"
             /\ ~lookups[l].found
       /\ lookups[l].index # 0 =>
             /\ lookups[l].height <= height
             /\ chain[lookups[l].index].height = lookups[l].height
             /\ queue = <<>> => lookups[l].found

\* a lookup of a height that two blocks share was answered with a block
C14_Witness ==
    \E l \in 1..Len(lookups) :
       /\ lookups[l].state = "resolved"
       /\ lookups[l].found
       /\ Cardinality({i \in 1..Len(chain) : chain[i].height = lookups[l].height}) = 2

\* C15: no operation blocks for ever: once the calls that will be made have
\* been made, every submitStar promise is settled (whatever its message and
\* signature were), every append has resolved and every validation callback
\* has run, and it stays so
C15_EveryCallSettles ==
    <>[]( /\ \A c \in Submits : calls[c].state # "pending"
          /\ \A c \in 1..Len(calls) :
                calls[c].add # "none" => calls[c].add = "resolved"
          /\ \A v \in 1..Len(vals) : vals[v].ran = Len(vals[v].chainAt) )

\* C16: the freshness check gates the signature check: bitcoinMessage.verify
\* is never invoked for a submission whose challenge has expired
C16_ExpiredNotVerified ==
    \A c \in Submits :
       (HasTimestamp(calls[c].message) /\ ElapsedOf(c) > FiveMinutes)
          => ~calls[c].verified

\* C17: the height of a block is its position in the chain, so heights are
\* unique and exactly one block has height 0
C17_HeightIsPosition ==
    \A i \in 1..Len(chain) : chain[i].height = i - 1

\* C18: the chain is append-only and pushed blocks are frozen: no step makes
\* the chain shorter, and the block at every existing index keeps its hash,
\* height, time, previousBlockHash and body
C18_AppendOnly ==
    [][ /\ Len(chain') >= Len(chain)
        /\ \A i \in 1..Len(chain) :
              /\ chain'[i].hash = chain[i].hash
              /\ chain'[i].height = chain[i].height
              /\ chain'[i].time = chain[i].time
              /\ chain'[i].previousBlockHash = chain[i].previousBlockHash
              /\ chain'[i] = chain[i] ]_vars

\* three blocks were pushed and the validation started by the second push has
\* gone over both of its blocks
C18_Witness ==
    /\ Len(chain) >= 3
    /\ \E v \in 1..Len(vals) :
          /\ Len(vals[v].chainAt) = 2
          /\ vals[v].ran = 2

\* C19: initializeChain is idempotent: whatever number of calls was made, the
\* constructor's included, the chain never holds more than one block with the
\* genesis payload
C19_OneGenesis ==
    Cardinality({i \in 1..Len(chain) : GetBData(chain[i]) = GenesisData}) <= 1

\* every submission of a handed-out message is accepted and has its own place
\* in the chain; when nothing is left to run, each has resolved and the chain
\* holds the genesis block and one block per submission
Reusable ==
    /\ \A c \in Submits :
          /\ calls[c].state # "rejected"
          /\ calls[c].idx # 0 =>
                /\ calls[c].idx \in 2..Len(chain)
                /\ GetBData(chain[calls[c].idx]) =
                      StarData(calls[c].address, calls[c].message,
                               calls[c].signature, calls[c].star)
          /\ \A d \in Submits :
                (c # d /\ calls[c].idx # 0) => calls[c].idx # calls[d].idx
    /\ queue = <<>> =>
          /\ \A c \in Submits : calls[c].state = "resolved" /\ calls[c].hasResult
          /\ Len(chain) = 1 + Cardinality(Submits)

\* C20: a challenge is not consumed by use: handing out a message changes
\* neither chain nor height, and the same signed message submitted k times
\* within the window succeeds k times and appends k blocks
C20_ChallengeNotConsumed ==
    [][ /\ issued' # issued => (chain' = chain /\ height' = height)
        /\ Reusable' ]_vars

\* the same (address, message, signature) was submitted twice, a second after
\* it was handed out, and both submissions resolved with their blocks
C20_Witness ==
    \E c, d \in Submits :
       /\ c < d
       /\ calls[c].message = calls[d].message
       /\ calls[c].address = calls[d].address
       /\ calls[c].signature = calls[d].signature
       /\ calls[c].state = "resolved" /\ calls[d].state = "resolved"
       /\ ElapsedOf(d) = 1
       /\ Len(chain) = 3

====
